---- MODULE Spec2Model ----
(***************************************************************************)
(* system_monitor.py: a SystemMonitor that samples CPU, RAM and GPU in a   *)
(* loop and writes one record per tick to a size-capped rotating log.      *)
(*                                                                         *)
(* The model follows the script of lines 125-127: one SystemMonitor is     *)
(* constructed in an empty log directory and run() is called once.  One    *)
(* action is one statement of the source; an interrupt (KeyboardInterrupt) *)
(* or an error (Exception) can arrive at every statement.  A call into the *)
(* logging library is one step: the interrupt is delivered before or after *)
(* it.  Under Spec the log sink stays writable throughout; SpecIO adds the *)
(* sink becoming unwritable, Spec13 is the end-to-end rotation scenario    *)
(* and Spec17 constructs several monitors in one process.                  *)
(*                                                                         *)
(* Texts are modelled by what the size check, the file and a line-oriented *)
(* reader can see of them: the number of characters, the number of UTF-8   *)
(* bytes and the number of line breaks.                                    *)
(***************************************************************************)
EXTENDS Integers, Sequences, FiniteSets

----------------------------------------------------------------------------
(* Bounds of the exploration *)

\* single loop iterations explored step by step
MaxTicks == 5
\* runs of identical iterations explored as one step (see TickRun)
MaxRuns == 5
\* GPU queries that raise
MaxGpuFaults == 1
\* monitors constructed in one process
MaxMonitors == 3

----------------------------------------------------------------------------
(* Program constants *)

LOG_FILENAME == "system_monitor.log"

\* RotatingFileHandler(..., maxBytes=5*1024*1024, backupCount=3, encoding="utf-8")
maxBytes == 5 * 1024 * 1024
backupCount == 3

\* monitor = SystemMonitor(interval=5): seconds of a full sleep
interval == 5

\* logging levels
DEBUG == 10
INFO == 20
CRITICAL == 50
\* a logger whose threshold lets DEBUG records through
loggerLevel_Debug == DEBUG

\* line 34: logger.setLevel(logging.INFO)
loggerLevel == INFO

----------------------------------------------------------------------------
(* Texts *)

\* a text of n ASCII characters without line break
Lit(n) == [chars |-> n, bytes |-> n, nl |-> 0]
\* the "\n" of the header
NewLine == [chars |-> 1, bytes |-> 1, nl |-> 1]
\* string concatenation, as the f-strings and the % operator do it
Cat(a, b) == [chars |-> a.chars + b.chars, bytes |-> a.bytes + b.bytes,
              nl |-> a.nl + b.nl]

RECURSIVE Digits(_)
Digits(n) == IF n < 10 THEN 1 ELSE 1 + Digits(n \div 10)

\* str() of a float held in hundredths: 0 -> "0.0", 1250 -> "12.5", 1234 -> "12.34"
FloatStr(h) == Lit(Digits(h \div 100) + 1 + (IF h % 10 = 0 THEN 1 ELSE 2))

LevelName(level) == IF level = CRITICAL THEN Lit(8)
                    ELSE IF level = INFO THEN Lit(4) ELSE Lit(5)

\* LOG_FORMAT = "%(asctime)s | %(levelname)s | %(message)s" with
\* datefmt "%Y-%m-%d %H:%M:%S": 19 characters of time stamp, " | ", the
\* level name, " | " and the message
Format(level, msg) == Cat(Cat(Cat(Cat(Lit(19), Lit(3)), LevelName(level)), Lit(3)), msg)

\* the number of lines of a formatted record that begin with the time
\* stamp and the level: the format puts them once, in front of the message
StampedLines(level, msg) == 1

----------------------------------------------------------------------------
(* The rotating log sink: logging.handlers.RotatingFileHandler as line 35  *)
(* configures it.  A file is a sequence of entries; an entry stands for    *)
(* cnt consecutive records of the same size, the first of them the n-th    *)
(* record written by the process.  disk maps the suffix of a file name (0  *)
(* for the active file, k for LOG_FILENAME.k) to the content of the file.  *)

RECURSIVE FileBytes(_)
FileBytes(f) == IF f = <<>> THEN 0
                ELSE Head(f).cnt * Head(f).bytes + FileBytes(Tail(f))

RECURSIVE FileRecords(_)
FileRecords(f) == IF f = <<>> THEN 0 ELSE Head(f).cnt + FileRecords(Tail(f))

\* os.rename(src, dst) after os.remove(dst)
Rename(d, src, dst) ==
    [k \in (DOMAIN d \ {src}) \cup {dst} |-> IF k = dst THEN d[src] ELSE d[k]]

\* ShiftBackups without the loop: LOG.1 is overwritten, nothing is shifted
ShiftBackups_None(d, i) == d

\* for i in range(backupCount - 1, 0, -1): move LOG.i to LOG.(i+1) if it exists
RECURSIVE ShiftBackups(_, _)
ShiftBackups(d, i) ==
    IF i < 1 THEN d
    ELSE ShiftBackups(IF i \in DOMAIN d THEN Rename(d, i, i + 1) ELSE d, i - 1)

\* doRollover with a loop that starts at backupCount: LOG.3 is shifted too
doRollover_ShiftsAll(d, bc) ==
    LET moved == IF bc > 0 THEN Rename(ShiftBackups(d, bc), 0, 1) ELSE d
    IN  [k \in DOMAIN moved \cup {0} |->
            IF k \in DOMAIN moved THEN moved[k] ELSE <<>>]

\* RotatingFileHandler.doRollover: shift the backups, the active file
\* becomes LOG.1, a fresh active file is opened
doRollover(d, bc) ==
    LET moved == IF bc > 0 THEN Rename(ShiftBackups(d, bc - 1), 0, 1) ELSE d
    IN  [k \in DOMAIN moved \cup {0} |->
            IF k \in DOMAIN moved THEN moved[k] ELSE <<>>]

\* a shouldRollover that never asks for a rollover
shouldRollover_Never(d, entry, mb) == FALSE

\* RotatingFileHandler.shouldRollover: stream.tell() is a number of bytes,
\* len(msg) of the formatted record and its terminator a number of characters
shouldRollover(d, entry, mb) ==
    mb > 0 /\ FileBytes(d[0]) + entry.chars >= mb

\* stream.write(msg + terminator) on the stream opened with encoding="utf-8"
write(f, entry) == Append(f, entry)

\* an emit that writes the record first and rolls over afterwards
emit_WriteThenRoll(d, entry, mb, bc) ==
    LET d1 == [d EXCEPT ![0] = write(d[0], entry)]
    IN  IF shouldRollover(d, entry, mb) THEN doRollover(d1, bc) ELSE d1

\* RotatingFileHandler.emit of one record
emit(d, entry, mb, bc) ==
    LET d1 == IF shouldRollover(d, entry, mb) THEN doRollover(d, bc) ELSE d
    IN  [d1 EXCEPT ![0] = write(d1[0], entry)]

\* the entry of a record: its text and the terminator "\n"
Entry(kind, level, msg, n, cnt) ==
    LET txt == Format(level, msg)
    IN  [kind |-> kind, n |-> n, cnt |-> cnt,
         chars |-> txt.chars + 1, bytes |-> txt.bytes + 1,
         lines |-> txt.nl + 1, stamped |-> StampedLines(level, msg),
         data |-> <<>>]

\* how many records of c characters and b bytes emit appends to a file of
\* pos bytes before the first of them rolls over
FitCount(pos, c, b, mb) ==
    IF pos + c >= mb THEN 0 ELSE (mb - 1 - c - pos) \div b + 1

----------------------------------------------------------------------------
(* What the platform can answer *)

\* two hosts: one with two GPUs (load in percent), one without GPU
gpuA == [load |-> 37, name |-> "RTX"]
gpuB == [load |-> 90, name |-> "GTX"]
Hosts == { [OS |-> "Linux", Cores |-> 8, gpus |-> <<gpuA, gpuB>>],
           [OS |-> "Windows", Cores |-> 4, gpus |-> <<>>] }

\* _get_os_info(), lines 46-52; ReprText is the length of repr() of the dict
OsInfoOf(h) == [OS |-> h.OS, Cores |-> h.Cores]
ReprText(info) == IF info.OS = "Linux" THEN Lit(135) ELSE Lit(113)

\* GPUtil.getGPUs(): the devices of the host
GpuLists(h) == { h.gpus }
NameText(name) == Lit(3)

\* psutil.cpu_percent(), psutil.virtual_memory(): percent and MB in hundredths
cpu_sample == 1250
ram_sample == [percent |-> 4000, used |-> 160000, available |-> 240000]

\* str(e) of the exceptions a statement can raise: an ASCII message, a
\* message in two-byte characters, a message of two lines
ErrTexts == { Lit(20), [chars |-> 20, bytes |-> 40, nl |-> 0],
              [chars |-> 31, bytes |-> 31, nl |-> 1] }

NoInfo == [OS |-> "", Cores |-> 0]
NoErr == Lit(0)
DefaultGpu == [usage |-> 0, name |-> "N/A"]
NoMetrics == [cpu_usage |-> 0, ram_usage |-> 0, ram_used |-> 0, ram_free |-> 0,
              gpu_usage |-> 0, gpu_name |-> ""]

----------------------------------------------------------------------------
(* State *)

VARIABLES
    pc,         \* the statement the process is about to execute
    host,       \* the host the process runs on
    alive,      \* the interpreter has not exited
    os_info,    \* self.os_info
    gpus,       \* _get_gpu_info: gpus
    gpu_data,   \* _get_gpu_info: gpu_data
    metrics,    \* run: metrics
    err,        \* the exception caught: e
    disk,       \* the log files
    stream,     \* the handler's stream: "none", "open", "closed"
    console,    \* the lines of the console
    history,    \* every record written, in write order
    rotations,  \* number of rollovers done
    ticks,      \* loop iterations begun one by one
    runs,       \* runs of iterations taken as one step
    captures,   \* number of calls of _get_os_info
    gpuFault,   \* the GPU query in progress has raised
    gpuFaults,  \* number of GPU queries that have raised
    intAt,      \* number of records written when the interrupt arrived in the loop
    intPc,      \* the statement the interrupt arrived at in the loop
    sinceWrite, \* seconds slept in full sleeps since the last record was written
    fault,      \* an Exception has been raised outside the GPU query
    handler,    \* maxBytes and backupCount of the RotatingFileHandler
    sinkOK,     \* the log files can be written
    logErrors,  \* reports of Handler.handleError on stderr
    others      \* the log files of the handlers other monitors have attached

vars == <<pc, host, alive, os_info, gpus, gpu_data, metrics, err, disk, stream,
          console, history, rotations, ticks, runs, captures, gpuFault, gpuFaults,
          intAt, intPc, sinceWrite, fault, handler, sinkOK, logErrors, others>>

\* the handler before line 35 has created it
NoHandler == [maxBytes |-> 0, backupCount |-> 0]

Starting == {"setup_logger", "get_os_info", "banner", "log_system_info"}
GpuTry == {"getGPUs", "gpu_load", "gpu_name"}
Running == {"cpu_percent", "virtual_memory", "gpu_except", "gpu_return",
            "log_tick", "console_write", "sleep"} \cup GpuTry
Stopping == {"int_print", "int_log"}
Faulted == {"err_log", "err_print"}

\* the controller's state, from the position in __init__ and run
State(p) == IF p \in Starting THEN "STARTING"
            ELSE IF p \in Running THEN "RUNNING"
            ELSE IF p \in Stopping THEN "STOPPING"
            ELSE IF p \in Faulted THEN "FAULTED"
            ELSE IF p = "returned" THEN "STOPPED"
            ELSE "CRASHED"

Written == FileRecords(history)

Init ==
    /\ pc = "setup_logger"
    /\ host \in Hosts
    /\ alive = TRUE
    /\ os_info = NoInfo
    /\ gpus = <<>>
    /\ gpu_data = DefaultGpu
    /\ metrics = NoMetrics
    /\ err = NoErr
    /\ disk = <<>>
    /\ stream = "none"
    /\ console = <<>>
    /\ history = <<>>
    /\ rotations = 0
    /\ ticks = 0
    /\ runs = 0
    /\ captures = 0
    /\ gpuFault = FALSE
    /\ gpuFaults = 0
    /\ intAt = -1
    /\ intPc = "none"
    /\ sinceWrite = 0
    /\ fault = FALSE
    /\ handler = NoHandler
    /\ sinkOK = TRUE
    /\ logErrors = 0
    /\ others = <<>>

----------------------------------------------------------------------------
(* Logging *)

\* Logger.log: a record below the logger's level is dropped, any other is
\* handed to every handler attached to the logger; cnt records of the same
\* text are written in a row.  A handler that cannot write reports on
\* stderr (Handler.handleError) and raises nothing.
LoggerLog(level, kind, msg, data, cnt) ==
    IF level >= loggerLevel
    THEN IF sinkOK
         THEN LET entry == [Entry(kind, level, msg, Written + 1, cnt) EXCEPT !.data = data]
              IN  /\ disk' = emit(disk, entry, handler.maxBytes, handler.backupCount)
                  /\ others' = [i \in DOMAIN others |->
                                   emit(others[i], entry, handler.maxBytes,
                                        handler.backupCount)]
                  /\ history' = Append(history, entry)
                  /\ rotations' = rotations +
                         (IF shouldRollover(disk, entry, handler.maxBytes) THEN 1 ELSE 0)
                  /\ UNCHANGED logErrors
         ELSE /\ logErrors' = logErrors + 1 + Len(others)
              /\ UNCHANGED <<disk, others, history, rotations>>
    ELSE UNCHANGED <<disk, others, history, rotations, logErrors>>

\* a logging call: the time since the last record starts again when it wrote one
Logged(level, kind, msg, data) ==
    /\ LoggerLog(level, kind, msg, data, 1)
    /\ sinceWrite' = IF history' # history THEN 0 ELSE sinceWrite

\* f"--- MONITOR STARTED ---\nSystem Info: {self.os_info}"
HeaderMsg(info) == Cat(Cat(Cat(Lit(23), NewLine), Lit(13)), ReprText(info))

\* TickMsg with a line break in front of the GPU part
TickMsg_TwoLines(m) ==
    Cat(Cat(Cat(Cat(Cat(Cat(Cat(Cat(Cat(Cat(Cat(
        Lit(5), FloatStr(m.cpu_usage)), Lit(9)), FloatStr(m.ram_usage)), Lit(3)),
        FloatStr(m.ram_used)), Lit(11)), NewLine), Lit(5)), FloatStr(m.gpu_usage)),
        Lit(3)), Cat(NameText(m.gpu_name), Lit(1)))

\* f"CPU: {cpu}% | RAM: {ram}% ({used}MB Used) | GPU: {gpu}% ({name})"
TickMsg(m) ==
    Cat(Cat(Cat(Cat(Cat(Cat(Cat(Cat(Cat(Cat(
        Lit(5), FloatStr(m.cpu_usage)), Lit(9)), FloatStr(m.ram_usage)), Lit(3)),
        FloatStr(m.ram_used)), Lit(16)), FloatStr(m.gpu_usage)), Lit(3)),
        NameText(m.gpu_name)), Lit(1))

\* "--- MONITOR STOPPED ---"
StoppedMsg == Lit(23)

\* f"Unexpected error: {e}"
CriticalMsg(e) == Cat(Lit(18), e)

\* f"Could not retrieve GPU info: {e}"
DebugMsg(e) == Cat(Lit(29), e)

\* print(...) adds a line; sys.stdout.write("\r[LIVE] ...") rewrites the current one
ConsoleLine(c, line) == Append(c, line)
WriteLive(c) == IF c # <<>> /\ c[Len(c)] = "live" THEN c ELSE Append(c, "live")

----------------------------------------------------------------------------
(* __init__ *)

\* line 24, _setup_logger: the handler opens the log file for appending
setup_logger ==
    /\ pc = "setup_logger"
    /\ disk' = [k \in {0} |-> <<>>]
    /\ stream' = "open"
    /\ handler' = [maxBytes |-> maxBytes, backupCount |-> backupCount]
    /\ pc' = "get_os_info"
    /\ UNCHANGED <<host, alive, os_info, gpus, gpu_data, metrics, err, console, history,
                   rotations, ticks, runs, captures, gpuFault, gpuFaults, intAt, intPc>>
    /\ UNCHANGED <<sinceWrite, fault, sinkOK, logErrors, others>>

\* line 25, _get_os_info
get_os_info ==
    /\ pc = "get_os_info"
    /\ os_info' = OsInfoOf(host)
    /\ captures' = captures + 1
    /\ pc' = "banner"
    /\ UNCHANGED <<host, alive, gpus, gpu_data, metrics, err, disk, stream, console,
                   history, rotations, ticks, runs, gpuFault, gpuFaults, intAt, intPc>>
    /\ UNCHANGED <<sinceWrite, fault, handler, sinkOK, logErrors, others>>

----------------------------------------------------------------------------
(* run *)

\* lines 98-99
banner ==
    /\ pc = "banner"
    /\ console' = ConsoleLine(console, "banner")
    /\ pc' = "log_system_info"
    /\ UNCHANGED <<host, alive, os_info, gpus, gpu_data, metrics, err, disk, stream,
                   history, rotations, ticks, runs, captures, gpuFault, gpuFaults, intAt, intPc>>
    /\ UNCHANGED <<sinceWrite, fault, handler, sinkOK, logErrors, others>>

\* line 100, log_system_info
log_system_info ==
    /\ pc = "log_system_info"
    /\ Logged(INFO, "header", HeaderMsg(os_info), os_info)
    /\ pc' = "cpu_percent"
    /\ UNCHANGED <<host, alive, os_info, gpus, gpu_data, metrics, err, stream, console,
                   ticks, runs, captures, gpuFault, gpuFaults, intAt, intPc>>
    /\ UNCHANGED <<fault, handler, sinkOK>>

\* line 104 -> 75: psutil.cpu_percent(interval=None)
cpu_percent ==
    /\ pc = "cpu_percent"
    /\ ticks < MaxTicks
    /\ ticks' = ticks + 1
    /\ pc' = "virtual_memory"
    /\ UNCHANGED <<host, alive, os_info, gpus, gpu_data, metrics, err, disk, stream,
                   console, history, rotations, runs, captures, gpuFault, gpuFaults, intAt, intPc>>
    /\ UNCHANGED <<sinceWrite, fault, handler, sinkOK, logErrors, others>>

\* line 76: psutil.virtual_memory()
virtual_memory ==
    /\ pc = "virtual_memory"
    /\ pc' = "getGPUs"
    /\ UNCHANGED <<host, alive, os_info, gpus, gpu_data, metrics, err, disk, stream,
                   console, history, rotations, ticks, runs, captures, gpuFault, gpuFaults, intAt, intPc>>
    /\ UNCHANGED <<sinceWrite, fault, handler, sinkOK, logErrors, others>>

\* lines 59-62 of _get_gpu_info
getGPUs ==
    /\ pc = "getGPUs"
    /\ gpu_data' = DefaultGpu
    /\ gpuFault' = FALSE
    /\ \E l \in GpuLists(host) :
          /\ gpus' = l
          /\ pc' = IF l # <<>> THEN "gpu_load" ELSE "gpu_return"
    /\ UNCHANGED <<host, alive, os_info, metrics, err, disk, stream, console, history,
                   rotations, ticks, runs, captures, gpuFaults, intAt, intPc>>
    /\ UNCHANGED <<sinceWrite, fault, handler, sinkOK, logErrors, others>>

\* lines 63-64: gpu_data["usage"] = round(gpu.load * 100, 2), in hundredths
gpu_load ==
    /\ pc = "gpu_load"
    /\ gpu_data' = [gpu_data EXCEPT !.usage = gpus[1].load * 100]
    /\ pc' = "gpu_name"
    /\ UNCHANGED <<host, alive, os_info, gpus, metrics, err, disk, stream, console,
                   history, rotations, ticks, runs, captures, gpuFault, gpuFaults, intAt, intPc>>
    /\ UNCHANGED <<sinceWrite, fault, handler, sinkOK, logErrors, others>>

\* line 65: gpu_data["name"] = gpu.name
gpu_name ==
    /\ pc = "gpu_name"
    /\ gpu_data' = [gpu_data EXCEPT !.name = gpus[1].name]
    /\ pc' = "gpu_return"
    /\ UNCHANGED <<host, alive, os_info, gpus, metrics, err, disk, stream, console,
                   history, rotations, ticks, runs, captures, gpuFault, gpuFaults, intAt, intPc>>
    /\ UNCHANGED <<sinceWrite, fault, handler, sinkOK, logErrors, others>>

\* lines 66-67: except Exception as e: self.logger.debug(...); e is unbound
\* at the end of the block
gpu_except ==
    /\ pc = "gpu_except"
    /\ Logged(DEBUG, "debug", DebugMsg(err), <<>>)
    /\ err' = NoErr
    /\ pc' = "gpu_return"
    /\ UNCHANGED <<host, alive, os_info, gpus, gpu_data, metrics, stream, console,
                   ticks, runs, captures, gpuFault, gpuFaults, intAt, intPc>>
    /\ UNCHANGED <<fault, handler, sinkOK>>

\* the snapshot fetch_metrics builds of a GPU answer, lines 78-85
Snapshot(g) ==
    [cpu_usage |-> cpu_sample, ram_usage |-> ram_sample.percent,
     ram_used |-> ram_sample.used, ram_free |-> ram_sample.available,
     gpu_usage |-> g.usage, gpu_name |-> g.name]

\* line 68 and lines 78-85: _get_gpu_info returns (its locals are gone),
\* fetch_metrics returns
gpu_return ==
    /\ pc = "gpu_return"
    /\ metrics' = Snapshot(gpu_data)
    /\ gpus' = <<>>
    /\ gpu_data' = DefaultGpu
    /\ pc' = "log_tick"
    /\ UNCHANGED <<host, alive, os_info, err, disk, stream, console,
                   history, rotations, ticks, runs, captures, gpuFault, gpuFaults, intAt, intPc>>
    /\ UNCHANGED <<sinceWrite, fault, handler, sinkOK, logErrors, others>>

\* lines 106-111
log_tick ==
    /\ pc = "log_tick"
    /\ Logged(INFO, "tick", TickMsg(metrics), metrics)
    /\ pc' = "console_write"
    /\ UNCHANGED <<host, alive, os_info, gpus, gpu_data, metrics, err, stream, console,
                   ticks, runs, captures, gpuFault, gpuFaults, intAt, intPc>>
    /\ UNCHANGED <<fault, handler, sinkOK>>

\* lines 113-114
console_write ==
    /\ pc = "console_write"
    /\ console' = WriteLive(console)
    /\ pc' = "sleep"
    /\ UNCHANGED <<host, alive, os_info, gpus, gpu_data, metrics, err, disk, stream,
                   history, rotations, ticks, runs, captures, gpuFault, gpuFaults, intAt, intPc>>
    /\ UNCHANGED <<sinceWrite, fault, handler, sinkOK, logErrors, others>>

\* sleep inside a loop that writes the header in every iteration
sleep_ThenHeader ==
    /\ pc = "sleep"
    /\ pc' = "log_system_info"
    /\ UNCHANGED <<host, alive, os_info, gpus, gpu_data, metrics, err, disk, stream,
                   console, history, rotations, ticks, runs, captures, gpuFault,
                   gpuFaults, intAt, intPc>>
    /\ sinceWrite' = sinceWrite + interval
    /\ UNCHANGED <<fault, handler, sinkOK, logErrors, others>>

\* a sleep that returns one second early
sleep_Short ==
    /\ pc = "sleep"
    /\ pc' = "cpu_percent"
    /\ sinceWrite' = sinceWrite + interval - 1
    /\ UNCHANGED <<host, alive, os_info, gpus, gpu_data, metrics, err, disk, stream,
                   console, history, rotations, ticks, runs, captures, gpuFault,
                   gpuFaults, intAt, intPc, fault, handler, sinkOK, logErrors, others>>

\* line 116: time.sleep(self.interval) runs to its end
sleep ==
    /\ pc = "sleep"
    /\ pc' = "cpu_percent"
    /\ UNCHANGED <<host, alive, os_info, gpus, gpu_data, metrics, err, disk, stream,
                   console, history, rotations, ticks, runs, captures, gpuFault, gpuFaults, intAt, intPc>>
    /\ sinceWrite' = sinceWrite + interval
    /\ UNCHANGED <<fault, handler, sinkOK, logErrors, others>>

\* the answer of _get_gpu_info when no statement of it raises
GpuAnswer(l) == IF l = <<>> THEN DefaultGpu
                ELSE [usage |-> l[1].load * 100, name |-> l[1].name]

\* lines 103-116, as many times in a row as the active file takes records
\* of this size without rolling over: every iteration gets the same answers
\* and none raises or is interrupted
TickRun ==
    /\ pc = "cpu_percent"
    /\ runs < MaxRuns
    /\ \E l \in GpuLists(host) :
          LET m == Snapshot(GpuAnswer(l))
              entry == Entry("tick", INFO, TickMsg(m), Written + 1, 1)
              k == FitCount(FileBytes(disk[0]), entry.chars, entry.bytes,
                            handler.maxBytes)
          IN  /\ k >= 1
              /\ metrics' = m
              /\ LoggerLog(INFO, "tick", TickMsg(m), m, k)
    /\ gpuFault' = FALSE
    /\ console' = WriteLive(console)
    /\ runs' = runs + 1
    /\ UNCHANGED <<pc, host, alive, os_info, gpus, gpu_data, err, stream, ticks,
                   captures, gpuFaults, intAt, intPc>>
    /\ sinceWrite' = interval
    /\ UNCHANGED <<fault, handler, sinkOK>>

\* line 119
int_print ==
    /\ pc = "int_print"
    /\ console' = ConsoleLine(console, "stopping")
    /\ pc' = "int_log"
    /\ UNCHANGED <<host, alive, os_info, gpus, gpu_data, metrics, err, disk, stream,
                   history, rotations, ticks, runs, captures, gpuFault, gpuFaults, intAt, intPc>>
    /\ UNCHANGED <<sinceWrite, fault, handler, sinkOK, logErrors, others>>

\* the interrupt handler without line 120
int_log_NoRecord ==
    /\ pc = "int_log"
    /\ pc' = "returned"
    /\ UNCHANGED <<host, alive, os_info, gpus, gpu_data, metrics, err, disk, stream,
                   console, history, rotations, ticks, runs, captures, gpuFault,
                   gpuFaults, intAt, intPc>>
    /\ UNCHANGED <<sinceWrite, fault, handler, sinkOK, logErrors, others>>

\* line 120; run returns
int_log ==
    /\ pc = "int_log"
    /\ Logged(INFO, "stopped", StoppedMsg, <<>>)
    /\ pc' = "returned"
    /\ UNCHANGED <<host, alive, os_info, gpus, gpu_data, metrics, err, stream, console,
                   ticks, runs, captures, gpuFault, gpuFaults, intAt, intPc>>
    /\ UNCHANGED <<fault, handler, sinkOK>>

\* line 122
err_log ==
    /\ pc = "err_log"
    /\ Logged(CRITICAL, "critical", CriticalMsg(err), <<>>)
    /\ pc' = "err_print"
    /\ UNCHANGED <<host, alive, os_info, gpus, gpu_data, metrics, err, stream, console,
                   ticks, runs, captures, gpuFault, gpuFaults, intAt, intPc>>
    /\ UNCHANGED <<fault, handler, sinkOK>>

\* line 123; run returns
err_print ==
    /\ pc = "err_print"
    /\ console' = ConsoleLine(console, "error")
    /\ pc' = "returned"
    /\ UNCHANGED <<host, alive, os_info, gpus, gpu_data, metrics, err, disk, stream,
                   history, rotations, ticks, runs, captures, gpuFault, gpuFaults, intAt, intPc>>
    /\ UNCHANGED <<sinceWrite, fault, handler, sinkOK, logErrors, others>>

----------------------------------------------------------------------------
(* Exceptions *)

\* the statements that call into the platform, the console or the clock; a
\* logging call raises nothing (Handler.emit catches what the sink raises)
Raising == {"setup_logger", "get_os_info", "banner", "cpu_percent",
            "virtual_memory", "getGPUs", "gpu_load", "gpu_name",
            "console_write", "sleep", "int_print", "err_print"}

\* lines 60-66: an Exception inside the try of _get_gpu_info
RaiseInGpuTry ==
    /\ pc \in GpuTry
    /\ gpuFaults < MaxGpuFaults
    /\ gpuFaults' = gpuFaults + 1
    /\ \E e \in ErrTexts : err' = e
    /\ gpuFault' = TRUE
    /\ pc' = "gpu_except"
    /\ UNCHANGED <<host, alive, os_info, gpus, gpu_data, metrics, disk, stream, console,
                   history, rotations, ticks, runs, captures, intAt, intPc>>
    /\ UNCHANGED <<sinceWrite, fault, handler, sinkOK, logErrors, others>>

\* an Exception in the loop that is swallowed: the loop goes on
RaiseInLoop_Continue ==
    /\ pc \in (Running \cap Raising) \ GpuTry
    /\ \E e \in ErrTexts : err' = e
    /\ pc' = "cpu_percent"
    /\ UNCHANGED <<host, alive, os_info, gpus, gpu_data, metrics, disk, stream, console,
                   history, rotations, ticks, runs, captures, gpuFault, gpuFaults,
                   intAt, intPc>>
    /\ fault' = TRUE
    /\ UNCHANGED <<sinceWrite, handler, sinkOK, logErrors, others>>

\* lines 102-121: an Exception inside the try of run
RaiseInLoop ==
    /\ pc \in (Running \cap Raising) \ GpuTry
    /\ \E e \in ErrTexts : err' = e
    /\ pc' = "err_log"
    /\ UNCHANGED <<host, alive, os_info, gpus, gpu_data, metrics, disk, stream, console,
                   history, rotations, ticks, runs, captures, gpuFault, gpuFaults, intAt, intPc>>
    /\ fault' = TRUE
    /\ UNCHANGED <<sinceWrite, handler, sinkOK, logErrors, others>>

\* an Exception outside every try (__init__, lines 98-100, the two except
\* blocks): it leaves run and the interpreter prints the traceback
RaiseOutside ==
    /\ pc \in Raising \ Running
    /\ console' = ConsoleLine(console, "traceback")
    /\ pc' = "crashed"
    /\ UNCHANGED <<host, alive, os_info, gpus, gpu_data, metrics, err, disk, stream,
                   history, rotations, ticks, runs, captures, gpuFault, gpuFaults, intAt, intPc>>
    /\ fault' = TRUE
    /\ UNCHANGED <<sinceWrite, handler, sinkOK, logErrors, others>>

\* lines 102-118: KeyboardInterrupt at a statement of the loop; it is not an
\* Exception, so the except of _get_gpu_info lets it pass
InterruptInLoop ==
    /\ pc \in Running
    /\ intAt' = Written
    /\ intPc' = pc
    /\ pc' = "int_print"
    /\ UNCHANGED <<host, alive, os_info, gpus, gpu_data, metrics, err, disk, stream,
                   console, history, rotations, ticks, runs, captures, gpuFault, gpuFaults>>
    /\ UNCHANGED <<sinceWrite, fault, handler, sinkOK, logErrors, others>>

\* KeyboardInterrupt outside the try of run
InterruptOutside ==
    /\ pc \in Starting \cup Stopping \cup Faulted
    /\ console' = ConsoleLine(console, "traceback")
    /\ pc' = "crashed"
    /\ UNCHANGED <<host, alive, os_info, gpus, gpu_data, metrics, err, disk, stream,
                   history, rotations, ticks, runs, captures, gpuFault, gpuFaults, intAt, intPc>>
    /\ UNCHANGED <<sinceWrite, fault, handler, sinkOK, logErrors, others>>

\* line 127 is the last of the script: the interpreter exits, and the
\* logging module's exit hook (logging.shutdown) closes the handler
ProcessExit ==
    /\ pc \in {"returned", "crashed"}
    /\ alive
    /\ alive' = FALSE
    /\ stream' = IF stream = "open" THEN "closed" ELSE stream
    /\ UNCHANGED <<pc, host, os_info, gpus, gpu_data, metrics, err, disk, console,
                   history, rotations, ticks, runs, captures, gpuFault, gpuFaults, intAt, intPc>>
    /\ UNCHANGED <<sinceWrite, fault, handler, sinkOK, logErrors, others>>

\* the log file stops taking writes while the loop runs (disk full, file
\* system read-only): from then on stream.write / flush of the handler of
\* line 35 raises OSError
SinkBreaks ==
    /\ pc \in Running
    /\ sinkOK
    /\ sinkOK' = FALSE
    /\ UNCHANGED <<pc, host, alive, os_info, gpus, gpu_data, metrics, err, disk, stream,
                   console, history, rotations, ticks, runs, captures, gpuFault,
                   gpuFaults, intAt, intPc, sinceWrite, fault, handler, logErrors, others>>

----------------------------------------------------------------------------

Next ==
    \/ setup_logger \/ get_os_info \/ banner \/ log_system_info
    \/ cpu_percent \/ virtual_memory
    \/ getGPUs \/ gpu_load \/ gpu_name \/ gpu_except \/ gpu_return
    \/ log_tick \/ console_write \/ sleep \/ TickRun
    \/ int_print \/ int_log \/ err_log \/ err_print
    \/ RaiseInGpuTry \/ RaiseInLoop \/ RaiseOutside
    \/ InterruptInLoop \/ InterruptOutside
    \/ ProcessExit

Spec == Init /\ [][Next]_vars

\* a constructor whose _setup_logger attaches no handler when the logger
\* already has one
Construct17_Guarded ==
    /\ pc = "banner"
    /\ captures < MaxMonitors
    /\ captures' = captures + 1
    /\ UNCHANGED <<pc, host, alive, os_info, gpus, gpu_data, metrics, err, disk, stream,
                   console, history, rotations, ticks, runs, gpuFault, gpuFaults,
                   intAt, intPc, sinceWrite, fault, handler, sinkOK, logErrors, others>>

\* lines 21-39: one more SystemMonitor(log_file=<a path of its own>) is
\* constructed in the process before run is called: getLogger returns the
\* logger that exists, _setup_logger attaches one more handler (which creates
\* its file) and _get_os_info captures the static info once more
Construct17 ==
    /\ pc = "banner"
    /\ captures < MaxMonitors
    /\ others' = Append(others, [k \in {0} |-> <<>>])
    /\ captures' = captures + 1
    /\ UNCHANGED <<pc, host, alive, os_info, gpus, gpu_data, metrics, err, disk, stream,
                   console, history, rotations, ticks, runs, gpuFault, gpuFaults,
                   intAt, intPc, sinceWrite, fault, handler, sinkOK, logErrors>>

\* a process that constructs several monitors and runs the first
Next17 ==
    \/ setup_logger \/ get_os_info \/ Construct17 \/ banner \/ log_system_info
    \/ cpu_percent \/ virtual_memory
    \/ getGPUs \/ gpu_load \/ gpu_name \/ gpu_except \/ gpu_return
    \/ log_tick \/ console_write \/ sleep
    \/ int_print \/ int_log \/ err_log \/ err_print
    \/ RaiseInGpuTry \/ RaiseInLoop \/ RaiseOutside
    \/ InterruptInLoop \/ InterruptOutside
    \/ ProcessExit

Spec17 == Init /\ [][Next17]_vars

\* the end-to-end scenario: the cap and the retention limit set on the
\* handler of line 35 after construction, and the number of ticks it runs
Scenario == [maxBytes |-> 200, backupCount |-> 2, ticks |-> 50]

\* lines 21-39, then the scenario's values set on the handler: the monitor is
\* constructed, its log is empty, run has not been called
Init13 ==
    /\ pc = "banner"
    /\ host \in Hosts
    /\ alive = TRUE
    /\ os_info = OsInfoOf(host)
    /\ gpus = <<>>
    /\ gpu_data = DefaultGpu
    /\ metrics = NoMetrics
    /\ err = NoErr
    /\ disk = [k \in {0} |-> <<>>]
    /\ stream = "open"
    /\ console = <<>>
    /\ history = <<>>
    /\ rotations = 0
    /\ ticks = 0
    /\ runs = 0
    /\ captures = 1
    /\ gpuFault = FALSE
    /\ gpuFaults = 0
    /\ intAt = -1
    /\ intPc = "none"
    /\ sinceWrite = 0
    /\ fault = FALSE
    /\ handler = [maxBytes |-> Scenario.maxBytes, backupCount |-> Scenario.backupCount]
    /\ sinkOK = TRUE
    /\ logErrors = 0
    /\ others = <<>>

\* lines 70-85 with the metric sources answering the scenario's fixed values
\* (cpu 12.5, ram 40.0 %, 1600 MB used, no GPU): fetch_metrics as one step
fetch_metrics13 ==
    /\ pc = "cpu_percent"
    /\ ticks < Scenario.ticks
    /\ ticks' = ticks + 1
    /\ metrics' = Snapshot(DefaultGpu)
    /\ pc' = "log_tick"
    /\ UNCHANGED <<host, alive, os_info, gpus, gpu_data, err, disk, stream, console,
                   history, rotations, runs, captures, gpuFault, gpuFaults, intAt,
                   intPc, sinceWrite, fault, handler, sinkOK, logErrors, others>>

Next13 ==
    \/ banner \/ log_system_info
    \/ fetch_metrics13 \/ log_tick \/ console_write \/ sleep

Spec13 == Init13 /\ [][Next13]_vars

\* the program on a host whose log file can stop taking writes, tick by tick
NextIO ==
    \/ setup_logger \/ get_os_info \/ banner \/ log_system_info
    \/ cpu_percent \/ virtual_memory
    \/ getGPUs \/ gpu_load \/ gpu_name \/ gpu_except \/ gpu_return
    \/ log_tick \/ console_write \/ sleep
    \/ int_print \/ int_log \/ err_log \/ err_print
    \/ RaiseInGpuTry \/ RaiseInLoop \/ RaiseOutside
    \/ InterruptInLoop \/ InterruptOutside
    \/ ProcessExit
    \/ SinkBreaks

SpecIO == Init /\ [][NextIO]_vars

----------------------------------------------------------------------------
(* Properties of the rotating log *)

Backups == DOMAIN disk \ {0}
EntriesOf(f) == { f[i] : i \in DOMAIN f }
AllEntries(d) == UNION { EntriesOf(d[k]) : k \in DOMAIN d }
Rotated == rotations' = rotations + 1

\* C1: after any sequence of log writes (header, tick records, stopped and
\* critical records) the size of the active log file is at most maxBytes
\* (5 MiB)
C1_ActiveWithinCap ==
    0 \in DOMAIN disk => FileBytes(disk[0]) <= maxBytes

\* C2: the number of backup files is at most backupCount (3), so there are
\* at most 4 log files including the active one
C2_BackupsBounded ==
    /\ Cardinality(Backups) <= backupCount
    /\ Cardinality(DOMAIN disk) <= backupCount + 1

C2_Witness == rotations = backupCount + 1 /\ Cardinality(Backups) = backupCount

\* C3: a rotation makes the former active file backup 1 and every former
\* backup k backup k+1, starts the active file afresh with the record that
\* triggered it, and discards the content of the former backup 3
C3_RotationStep ==
    Rotated =>
        /\ disk'[1] = disk[0]
        /\ \A k \in 1..(backupCount - 1) :
              k \in DOMAIN disk => k + 1 \in DOMAIN disk' /\ disk'[k + 1] = disk[k]
        /\ disk'[0] = <<history'[Len(history')]>>
        /\ backupCount \in DOMAIN disk =>
              EntriesOf(disk[backupCount]) \cap AllEntries(disk') = {}

\* C3: once more than backupCount + 1 rotations have happened, the content
\* of the oldest file (it begins with the first record written) is in no file
C3_OldestGone ==
    rotations > backupCount + 1 =>
        \A e \in AllEntries(disk) : e.n > FileRecords(<<history[1]>>)

\* C3: each rotation renumbers the backup chain by recency and drops the
\* content of the backup at the retention limit
C3_RotationRenumbers == [][C3_RotationStep]_vars /\ []C3_OldestGone

C3_Witness == rotations > backupCount + 1 /\ DOMAIN disk = 0..backupCount

----------------------------------------------------------------------------
(* Properties of the GPU query *)

\* C4: the GPU query returns exactly the default pair (0.0, "N/A") whenever
\* an error occurred at any point of it
C4_DefaultOnAnyError ==
    pc = "gpu_return" /\ gpuFault => gpu_data = DefaultGpu

----------------------------------------------------------------------------
(* Properties of the controller *)

Last(q) == q[Len(q)]
KindCount(kind) == Cardinality({ i \in DOMAIN history : history[i].kind = kind })

\* C5: once an interrupt has arrived in the loop the controller never returns
\* to the loop (it does not finish the sleep), the only record written after
\* it is the stopped record, and when the handler has run that record is the
\* last of the log
C5_InterruptStops ==
    intAt >= 0 =>
        /\ pc \notin Running
        /\ \A i \in DOMAIN history : history[i].n > intAt => history[i].kind = "stopped"
        /\ Written <= intAt + 1
        /\ pc = "returned" =>
              /\ Written = intAt + 1
              /\ Last(history).kind = "stopped"
              /\ Last(disk[0]) = Last(history)
              /\ Last(console) = "stopping"

C5_Witness ==
    intPc = "sleep" /\ pc = "returned" /\ Last(history).kind = "stopped"

\* C6 (step): an error in a statement of the loop outside the GPU query takes
\* the controller to the fault handler, and the fault handler never goes
\* back to the loop
C6_FaultStep ==
    /\ (pc \in Running \ GpuTry /\ err' # err /\ err' # NoErr) => pc' = "err_log"
    /\ pc \in Faulted => pc' \in Faulted \cup {"returned", "crashed"}

\* C6 (state): the fault handler writes exactly one CRITICAL record, which
\* describes the error and is the last record of the log, and prints the error
C6_FaultState ==
    /\ KindCount("critical") <= 1
    /\ pc = "err_log" => KindCount("critical") = 0
    /\ pc = "err_print" =>
          /\ KindCount("critical") = 1
          /\ Last(history).kind = "critical"
          /\ Last(history).chars = Format(CRITICAL, CriticalMsg(err)).chars + 1
    /\ KindCount("critical") = 1 =>
          /\ pc \notin Running
          /\ Last(history).kind = "critical"
          /\ Last(disk[0]) = Last(history)
          /\ pc = "returned" => Last(console) = "error"

\* C6: an error in a tick that is not an interrupt moves RUNNING -> FAULTED:
\* one CRITICAL record is written, the error is printed, the controller
\* stops; no tick record follows and the loop is not restarted
C6_ErrorFaults == [][C6_FaultStep]_vars /\ []C6_FaultState

C6_Witness ==
    pc = "returned" /\ KindCount("critical") = 1 /\ KindCount("tick") >= 1
    /\ Last(console) = "error"

\* the transitions the state machine of the controller allows
LifecycleEdges == { <<"STARTING", "RUNNING">>, <<"RUNNING", "STOPPING">>,
                    <<"STOPPING", "STOPPED">>, <<"RUNNING", "FAULTED">>,
                    <<"FAULTED", "STOPPED">> }

\* C7: the controller only ever moves STARTING -> RUNNING -> STOPPING ->
\* STOPPED or RUNNING -> FAULTED -> STOPPED, whatever interrupts and errors
\* arrive
C7_LifecycleOnly ==
    [][State(pc) # State(pc') => <<State(pc), State(pc')>> \in LifecycleEdges]_vars

\* C8 (state): the static info is captured once, at construction; one header
\* record, which carries it, is written, and it precedes every tick record
C8_OneHeader ==
    /\ captures <= 1
    /\ pc \notin {"setup_logger", "get_os_info"} /\ pc # "crashed" =>
          captures = 1 /\ os_info = OsInfoOf(host)
    /\ KindCount("header") <= 1
    /\ State(pc) \in {"RUNNING", "STOPPING", "FAULTED", "STOPPED"} =>
          /\ KindCount("header") = 1
          /\ history[1].kind = "header"
          /\ history[1].data = os_info

\* C8: the static system info is captured exactly once and never modified
\* afterwards, and exactly one header record containing it is written,
\* before the first tick record
C8_StaticInfoOnce == [][os_info # NoInfo => os_info' = os_info]_vars /\ []C8_OneHeader

C8_Witness ==
    KindCount("tick") >= 2 /\ history[1].kind = "header" /\ captures = 1
    /\ history[1].data = os_info

\* C9 as stated: every record written occupies exactly one line
C9_OneLinePerRecord ==
    \A e \in AllEntries(disk) : e.lines = 1

\* C9 as amended: every record begins with the time stamp and the level and
\* ends with a line terminator; a tick record and the stopped record occupy
\* exactly one line, the header record exactly two (its second line has no
\* time stamp and no level), and a critical record one line more than the
\* error text has line breaks
C9_RecordLines ==
    /\ \A e \in AllEntries(disk) :
          /\ e.stamped = 1
          /\ e.kind \in {"tick", "stopped"} => e.lines = 1
          /\ e.kind = "header" => e.lines = 2
          /\ e.kind = "critical" => e.lines >= 1
    /\ pc = "err_print" => Last(history).lines = 1 + err.nl

C9_Witness ==
    /\ \E e \in AllEntries(disk) : e.kind = "header"
    /\ \E e \in AllEntries(disk) : e.kind = "tick"
    /\ \E e \in AllEntries(disk) : e.kind = "critical" /\ e.lines = 2

\* C10: whenever the controller has reached STOPPED (run is over), the log
\* file handle opened by _setup_logger is no longer open
C10_ClosedWhenStopped ==
    pc \in {"returned", "crashed"} => stream # "open"

----------------------------------------------------------------------------
(* Properties of the timing *)

WroteRecord == history' # history

----------------------------------------------------------------------------
(* Properties of the fault paths *)

Printed(line) == \E i \in DOMAIN console : console[i] = line

\* C12: on every fault path (an error in a startup step, in a tick step or in
\* a handler) the error has been written to the log and printed to the
\* console when the process terminates
C12_FaultsLoggedAndPrinted ==
    (fault /\ ~alive) =>
        /\ KindCount("critical") >= 1
        /\ Printed("error") \/ Printed("traceback")

----------------------------------------------------------------------------
(* Properties of the tick record *)

C15_TickStep ==
    /\ (pc = "log_tick" /\ pc' = "console_write") =>
          /\ Len(history') = Len(history) + 1
          /\ FileRecords(history') = FileRecords(history) + 1
          /\ Last(history').kind = "tick"
          /\ Last(history').data = metrics
          /\ SubSeq(history', 1, Len(history)) = history
    /\ runs' # runs =>
          /\ Len(history') = Len(history) + 1
          /\ Last(history').kind = "tick"
          /\ Last(history').data = metrics'
    /\ (pc \in Running \ {"log_tick"} /\ pc' \in Running /\ runs' = runs) =>
          history' = history

\* C15: every completed tick appends exactly one record, which carries the
\* values of that tick's snapshot; no other step of the loop writes, and the
\* DEBUG message of a failed GPU query adds no record
C15_OneRecordPerTick ==
    [][C15_TickStep]_vars /\ [](KindCount("debug") = 0)

C15_Witness ==
    /\ pc = "console_write" /\ gpuFault /\ host.gpus # <<>>
    /\ Last(history).kind = "tick"
    /\ Last(history).data = Snapshot(DefaultGpu)

----------------------------------------------------------------------------
(* Properties of the log as a whole *)

\* the files LOG.k, ..., LOG.1, LOG read one after the other
RECURSIVE ReadBack(_, _)
ReadBack(d, k) ==
    IF k < 0 THEN <<>>
    ELSE (IF k \in DOMAIN d THEN d[k] ELSE <<>>) \o ReadBack(d, k - 1)

IsSuffix(s, t) ==
    /\ Len(s) <= Len(t)
    /\ SubSeq(t, Len(t) - Len(s) + 1, Len(t)) = s

\* C16: the files read in the order backup 3, backup 2, backup 1, active hold
\* a contiguous suffix of the records written so far, in write order and
\* without duplication, and the most recently written record is the last
\* record of the active file
C16_FilesHoldSuffix ==
    0 \in DOMAIN disk =>
        /\ IsSuffix(ReadBack(disk, backupCount), history)
        /\ history # <<>> => disk[0] # <<>> /\ Last(disk[0]) = Last(history)

C16_Witness ==
    /\ DOMAIN disk = 0..backupCount
    /\ \A k \in DOMAIN disk : disk[k] # <<>>
    /\ Len(ReadBack(disk, backupCount)) < Len(history)
    /\ Last(disk[0]) = Last(history)

----------------------------------------------------------------------------
(* Properties of a failing sink *)

\* C14: when the write of a tick record fails because the sink has become
\* unwritable, the monitoring loop terminates instead of continuing to tick:
\* once a write has failed the controller is no longer in the loop
C14_UnwritableSinkStopsLoop ==
    logErrors > 0 => pc \notin Running

----------------------------------------------------------------------------
(* Properties of the shared logger *)

\* the handlers attached to the logger "SystemMonitor"
Handlers == (IF handler = NoHandler THEN 0 ELSE 1) + Len(others)

C17_HandlersKept ==
    /\ Len(others') >= Len(others)
    /\ \A i \in DOMAIN others : history' = history => others'[i] = others[i]

\* C17: the logger is shared by all monitors of the process: each
\* construction attaches one more handler and none is removed, so after k
\* constructions there are k handlers and every record logged is written k
\* times, once into the file of each handler
C17_RecordPerHandler ==
    /\ [][C17_HandlersKept]_vars
    /\ [](/\ captures >= 1 => Handlers = captures
          /\ \A i \in DOMAIN others : others[i] = disk)

C17_Witness ==
    /\ captures = MaxMonitors /\ Len(others) = MaxMonitors - 1
    /\ KindCount("tick") >= 2
    /\ \A i \in DOMAIN others : Last(others[i][0]) = Last(history)

----------------------------------------------------------------------------
(* The end-to-end rotation scenario *)

\* the record of the last tick of the scenario has been written
ScenarioDone == ticks = Scenario.ticks /\ pc \in {"console_write", "sleep"}

\* 'CPU: 12.5% | RAM: 40.0% (1600MB Used) | GPU: 0.0% (N/A)'
ClaimedTickText == Lit(55)
\* 'CPU: 12.5% | RAM: 40.0% (1600.0MB Used) | GPU: 0.0% (N/A)'
WrittenTickText == Lit(57)

LastLineIs(text) ==
    /\ disk[0] # <<>>
    /\ Last(disk[0]).kind = "tick"
    /\ Last(disk[0]).lines = 1
    /\ Last(disk[0]).data = Snapshot(DefaultGpu)
    /\ Last(disk[0]).chars = Format(INFO, text).chars + 1
    /\ Last(disk[0]).bytes = Format(INFO, text).bytes + 1

\* C13 as stated: with a cap of 200 bytes, 2 backups and 50 ticks of the
\* fixed snapshot, at least one rotation has occurred, at most 2 backup
\* files exist and the last line of the active file is the tick record
\* 'CPU: 12.5% | RAM: 40.0% (1600MB Used) | GPU: 0.0% (N/A)'
C13_ScenarioAsStated ==
    ScenarioDone =>
        /\ rotations >= 1
        /\ Cardinality(Backups) <= Scenario.backupCount
        /\ LastLineIs(ClaimedTickText)

\* C13 as amended: in the same scenario at least one rotation has occurred,
\* at most 2 backup files exist and the last line of the active file is the
\* tick record 'CPU: 12.5% | RAM: 40.0% (1600.0MB Used) | GPU: 0.0% (N/A)'
C13_ScenarioRotates ==
    ScenarioDone =>
        /\ rotations >= 1
        /\ Backups \subseteq 1..Scenario.backupCount
        /\ LastLineIs(WrittenTickText)

C13_Witness ==
    /\ ScenarioDone
    /\ rotations >= Scenario.backupCount + 1
    /\ Cardinality(Backups) = Scenario.backupCount
    /\ KindCount("tick") = Scenario.ticks

====
